---- MODULE Spec2Model ----
(***************************************************************************)
(* Model of photo_automation.py: file discovery, bracket grouping, batch   *)
(* partitioning and the sequential hand-off of units to the external       *)
(* image editor.                                                           *)
(*                                                                         *)
(* A path is a sequence of code points, relative to the input directory    *)
(* (os.path.join prefixes the same directory to every result, so the       *)
(* common prefix is left out).  "/" (47) separates a sub-directory.        *)
(***************************************************************************)
EXTENDS Integers, Sequences, FiniteSets, TLC

\* ------------------------------------------------------------------------
\* Bounds of the model
\* ------------------------------------------------------------------------
MaxFiles == 11
MaxHdrFiles == 5
MaxBracket == 3
MaxSeqLen == 8

\* ------------------------------------------------------------------------
\* Characters and strings: a character is its code point, which is what
\* Python orders strings by ("." 46, "/" 47, "0".."9" 48..57, "A".."Z"
\* 65..90, "_" 95, "a".."z" 97..122)
\* ------------------------------------------------------------------------
\* str.lower() on one character
LowerChar(c) == IF c \in 65..90 THEN c + 32 ELSE c

\* str.upper() on one character
UpperChar(c) == IF c \in 97..122 THEN c - 32 ELSE c

Lower(s) == [k \in 1..Len(s) |-> LowerChar(s[k])]

Upper(s) == [k \in 1..Len(s) |-> UpperChar(s[k])]

\* str.endswith
EndsWith(s, suffix) ==
  /\ Len(suffix) <= Len(s)
  /\ SubSeq(s, Len(s) - Len(suffix) + 1, Len(s)) = suffix

\* s < t in Python's string order: at the first position where they differ
\* s has the smaller code point, or s is a proper prefix of t
StrLess(s, t) ==
  \E k \in 1..Len(t) :
     /\ \A m \in 1..(k-1) : m <= Len(s) /\ s[m] = t[m]
     /\ k > Len(s) \/ (k <= Len(s) /\ s[k] < t[k])

\* where the element at position k goes when l is sorted: behind the
\* smaller elements and the equal elements that precede it
SortRank(l) ==
  [k \in 1..Len(l) |->
     1 + Cardinality({m \in 1..Len(l) :
            StrLess(l[m], l[k]) \/ (m < k /\ l[m] = l[k])})]

\* the list whose element k of l sits at position rank[k]
Permuted(l, rank) ==
  [p \in 1..Len(l) |-> l[CHOOSE k \in 1..Len(l) : rank[k] = p]]

\* sorted(l) / l.sort() (the ranks are bound so that they are computed once)
Sorted(l) ==
  CHOOSE s \in {Permuted(l, rank) : rank \in {SortRank(l)}} : TRUE

\* position of the last "/" of a path, 0 when there is none
LastSlash(p) ==
  IF \E k \in 1..Len(p) : p[k] = 47
  THEN CHOOSE k \in 1..Len(p) :
         p[k] = 47 /\ \A m \in (k+1)..Len(p) : p[m] # 47
  ELSE 0

\* os.path.basename
Basename(p) == SubSeq(p, LastSlash(p) + 1, Len(p))

\* os.path.splitext(name)[0]: a dot that only follows leading dots does not
\* start an extension
SplitextRoot(name) ==
  LET dots == {k \in 1..Len(name) :
                 name[k] = 46 /\ \E m \in 1..(k-1) : name[m] # 46}
  IN IF dots = {} THEN name
     ELSE SubSeq(name, 1, (CHOOSE k \in dots : \A m \in dots : m <= k) - 1)

\* ------------------------------------------------------------------------
\* Constants of the program
\* ------------------------------------------------------------------------
\* .jpg, .jpeg, .tif, .tiff, .raw, .cr2, .nef, .arw
SUPPORTED_IMAGE_FORMATS ==
  << <<46, 106, 112, 103>>,
     <<46, 106, 112, 101, 103>>,
     <<46, 116, 105, 102>>,
     <<46, 116, 105, 102, 102>>,
     <<46, 114, 97, 119>>,
     <<46, 99, 114, 50>>,
     <<46, 110, 101, 102>>,
     <<46, 97, 114, 119>> >>

NoPath == "None"

\* the path given with --photoshop, when one is given
CliPath == "cli_photoshop"

PHOTOSHOP_PATHS ==
  [darwin |-> <<"mac_2023", "mac_2022", "mac_2021", "mac_cc2020">>,
   win32  |-> <<"win_2023", "win_2022", "win_2021", "win_cc2020">>,
   linux  |-> <<"usr_bin_photoshop", "opt_photoshop">>]

Platforms == {"darwin", "win32", "linux", "other"}

batch_size == 10

\* ------------------------------------------------------------------------
\* find_photoshop_path
\* ------------------------------------------------------------------------
find_photoshop_path(plat, exists) ==
  IF plat \notin DOMAIN PHOTOSHOP_PATHS THEN NoPath
  ELSE LET paths == PHOTOSHOP_PATHS[plat]
           found == {k \in 1..Len(paths) : paths[k] \in exists}
       IN IF found = {} THEN NoPath
          ELSE paths[CHOOSE k \in found : \A m \in found : k <= m]

\* ------------------------------------------------------------------------
\* get_image_files
\* ------------------------------------------------------------------------
\* some enumeration of a set of paths (glob and os.walk promise no order;
\* the caller sorts the list)
SetToSeq(S) ==
  [p \in 1..Cardinality(S) |->
     CHOOSE x \in S : Cardinality({y \in S : StrLess(y, x)}) = p - 1]

\* fnmatch of a name against the pattern "*" + ext: os.path.normcase
\* lower-cases both sides on win32 and is the identity elsewhere
FnMatch(name, ext, plat) ==
  IF plat = "win32" THEN EndsWith(Lower(name), Lower(ext))
  ELSE EndsWith(name, ext)

\* glob.glob(os.path.join(directory, "*" + ext)): direct children only, and
\* a pattern that does not start with a dot skips the names that do
Glob(dir, ext, plat) ==
  {p \in dir : /\ LastSlash(p) = 0
               /\ p[1] # 46
               /\ FnMatch(p, ext, plat)}

\* the list one glob call returns (the set is bound so that it is computed
\* once)
GlobList(dir, ext, plat) ==
  CHOOSE l \in {SetToSeq(g) : g \in {Glob(dir, ext, plat)}} : TRUE

\* the non-recursive branch: both spellings of every extension are globbed
\* and every result list is appended
RECURSIVE GlobAll(_, _, _)
GlobAll(dir, k, plat) ==
  IF k > Len(SUPPORTED_IMAGE_FORMATS) THEN <<>>
  ELSE GlobList(dir, SUPPORTED_IMAGE_FORMATS[k], plat)
       \o GlobList(dir, Upper(SUPPORTED_IMAGE_FORMATS[k]), plat)
       \o GlobAll(dir, k + 1, plat)

\* the recursive branch: os.walk visits every file once
WalkAll(dir) ==
  CHOOSE l \in
    {SetToSeq(w) :
       w \in {{p \in dir :
                 \E k \in 1..Len(SUPPORTED_IMAGE_FORMATS) :
                    EndsWith(Lower(Basename(p)),
                             SUPPORTED_IMAGE_FORMATS[k])}}} : TRUE

\* (the list is bound before it is sorted so that it is computed once)
get_image_files(dir, rec, plat) ==
  CHOOSE result \in
    {Sorted(found) :
       found \in {IF rec THEN WalkAll(dir) ELSE GlobAll(dir, 1, plat)}} : TRUE

\* ------------------------------------------------------------------------
\* identify_bracketed_sets
\* ------------------------------------------------------------------------
\* (fault: the set still open at the last file is never closed)
CloseSetMut(current, bracket_count, k, n) == Len(current) = bracket_count

\* "if len(current_set) == bracket_count or i == len(image_files) - 1"
CloseSet(current, bracket_count, k, n) ==
  Len(current) = bracket_count \/ k = n

\* (fault: a single file is kept as a set)
RetainSetMut(current) == Len(current) >= 1

\* "if len(current_set) >= 2"
RetainSet(current) == Len(current) >= 2

\* the loop over enumerate(image_files); k is the 1-based position
RECURSIVE BracketLoop(_, _, _, _, _)
BracketLoop(files, bracket_count, k, current_set, sets) ==
  IF k > Len(files) THEN sets
  ELSE LET cur == Append(current_set, files[k])
       IN IF CloseSet(cur, bracket_count, k, Len(files))
          THEN BracketLoop(files, bracket_count, k + 1, <<>>,
                           IF RetainSet(cur) THEN Append(sets, cur) ELSE sets)
          ELSE BracketLoop(files, bracket_count, k + 1, cur, sets)

\* image_files.sort(), then the loop
identify_bracketed_sets(files, bracket_count) ==
  CHOOSE result \in
    {BracketLoop(sorted, bracket_count, 1, <<>>, <<>>) :
       sorted \in {Sorted(files)}} : TRUE

\* ------------------------------------------------------------------------
\* batch_edit_photos / merge_hdr_photos helpers
\* ------------------------------------------------------------------------
Min(a, b) == IF a < b THEN a ELSE b

\* (fault: the slice is one file short)
BatchSliceMut(files, i) ==
  SubSeq(files, i + 1, Min(i + batch_size - 1, Len(files)))

\* input_files[i:i+batch_size], i 0-based
BatchSlice(files, i) == SubSeq(files, i + 1, Min(i + batch_size, Len(files)))

\* os.path.join(output_dir, os.path.basename(file)), relative to output_dir
BatchOutputFile(file) == Basename(file)

\* os.path.join(output_dir, base_name + "_HDR.tif"), relative to output_dir
HdrOutputFile(bracketed_set) ==
  SplitextRoot(Basename(bracketed_set[1]))
    \o <<95, 72, 68, 82, 46, 116, 105, 102>>   \* "_HDR.tif"

\* (fault: output on stderr fails the unit)
ScriptResultMut(returncode, stderr) == returncode = 0 /\ ~stderr

\* "if process.returncode != 0: return False ... return True"; stderr is
\* only logged
ScriptResult(returncode, stderr) == returncode = 0

\* (fault: every file of a batch that returned ok is counted)
BatchCountMut(ok, batch_files, out) == IF ok THEN Len(batch_files) ELSE 0

\* files of a batch counted after run_photoshop_script returned ok
BatchCount(ok, batch_files, out) ==
  IF ok
  THEN Cardinality({k \in 1..Len(batch_files) :
                      BatchOutputFile(batch_files[k]) \in out})
  ELSE 0

\* a bracket set counted after run_photoshop_script returned ok
HdrCount(ok, bracketed_set, out) ==
  IF ok /\ HdrOutputFile(bracketed_set) \in out THEN 1 ELSE 0

\* ------------------------------------------------------------------------
\* State
\* ------------------------------------------------------------------------
VARIABLES
  platform,        \* sys.platform
  installed,       \* the executable paths that exist on this machine
  args,            \* the parsed command line
  inputIsDir,      \* os.path.isdir(args.input)
  dirContent,      \* the files below args.input
  outputDirExists, \* os.path.exists(args.output)
  outFiles,        \* the files in args.output
  pc,              \* position of the one thread of control
  photoshop_path,
  image_files,
  bracketed_sets,
  i,               \* loop variable of batch_edit_photos / merge_hdr_photos
  success_count,
  total_count,
  last,            \* how the latest call of run_photoshop_script ended
  submitted,       \* the units given to run_photoshop_script, in call order
  spawned,         \* number of external processes started
  log              \* the kinds of message logged so far

vars ==
  <<platform, installed, args, inputIsDir, dirContent, outputDirExists,
    outFiles, pc, photoshop_path, image_files, bracketed_sets, i,
    success_count, total_count, last, submitted, spawned, log>>

\* ------------------------------------------------------------------------
\* Inputs
\* ------------------------------------------------------------------------
\* the k-th capture of a shoot: two digits and ".jpg", ".JPG" or ".tif"
BulkName(k) ==
  <<48 + (k \div 10), 48 + (k % 10)>> \o
  (IF k % 3 = 1 THEN <<46, 106, 112, 103>>
   ELSE IF k % 3 = 2 THEN <<46, 74, 80, 71>>
   ELSE <<46, 116, 105, 102>>)

BulkDir(n) == {BulkName(k) : k \in 1..n}

\* files that are not plain captures: "n.txt" (no image), "x.Jpg" (mixed
\* case), ".h.jpg" (hidden), "s/01.jpg" (in a sub-directory)
ExtraFiles ==
  { <<110, 46, 116, 120, 116>>, <<120, 46, 74, 112, 103>>,
    <<46, 104, 46, 106, 112, 103>>, <<115, 47, 48, 49, 46, 106, 112, 103>> }

\* the numbers of captures tried: every small shoot, and for the batch
\* command the sizes next to a multiple of batch_size
DirSizes(command) ==
  IF command = "batch"
  THEN {n \in 0..MaxFiles : n <= 2 \/ n % batch_size \in {0, 1, batch_size - 1}}
  ELSE 0..MaxHdrFiles

DirChoices(command) ==
  {BulkDir(n) : n \in DirSizes(command)}
  \cup {BulkDir(n) \cup ExtraFiles : n \in {0, 2}}

BracketCounts == (-1)..MaxBracket

ArgsChoices ==
  [command : {"none"}, photoshop : {NoPath, CliPath},
   recursive : {FALSE}, bracket_count : {3}]
  \cup
  [command : {"batch"}, photoshop : {NoPath, CliPath},
   recursive : BOOLEAN, bracket_count : {3}]
  \cup
  [command : {"hdr"}, photoshop : {NoPath, CliPath},
   recursive : {FALSE}, bracket_count : BracketCounts]

InstalledChoices(plat) ==
  {{}, {CliPath}} \cup
  (IF plat \in DOMAIN PHOTOSHOP_PATHS
   THEN {{PHOTOSHOP_PATHS[plat][2]},
         {PHOTOSHOP_PATHS[plat][1], PHOTOSHOP_PATHS[plat][2]}}
   ELSE {})

ExitCodes == {0, 1}

NoCall == [kind |-> "none", returncode |-> 0, stderr |-> FALSE, result |-> FALSE]

Init ==
  /\ platform \in Platforms
  /\ installed \in InstalledChoices(platform)
  /\ args \in ArgsChoices
  /\ inputIsDir \in BOOLEAN
  /\ dirContent \in (IF inputIsDir /\ args.command # "none"
                     THEN DirChoices(args.command) ELSE {{}})
  /\ outputDirExists \in BOOLEAN
  /\ outFiles = {}
  /\ pc = "main"
  /\ photoshop_path = NoPath
  /\ image_files = <<>>
  /\ bracketed_sets = <<>>
  /\ i = 0
  /\ success_count = 0
  /\ total_count = 0
  /\ last = NoCall
  /\ submitted = <<>>
  /\ spawned = 0
  /\ log = {}

\* ------------------------------------------------------------------------
\* main
\* ------------------------------------------------------------------------
\* "args.photoshop if ... args.photoshop else find_photoshop_path()"
ResolvePhotoshopPath(a, plat, exists) ==
  IF a.photoshop # NoPath THEN a.photoshop
  ELSE find_photoshop_path(plat, exists)

\* (fault: an empty list is not noticed)
NoImageFilesMut(files) == FALSE

\* "if not image_files"
NoImageFiles(files) == files = <<>>

\* main up to the dispatch on the command: path look-up, the check of the
\* input directory, creation of the output directory
Preflight ==
  /\ pc = "main"
  /\ LET path == ResolvePhotoshopPath(args, platform, installed)
     IN IF args.command = "none"
        THEN /\ pc' = "done"
             /\ log' = log \cup {"help"}
             /\ UNCHANGED <<photoshop_path, outputDirExists>>
        ELSE IF path = NoPath
        THEN /\ pc' = "done"
             /\ log' = log \cup {"photoshop_not_found"}
             /\ photoshop_path' = path
             /\ UNCHANGED outputDirExists
        ELSE IF ~inputIsDir
        THEN /\ pc' = "done"
             /\ log' = log \cup {"input_not_found"}
             /\ photoshop_path' = path
             /\ UNCHANGED outputDirExists
        ELSE /\ pc' = "dispatch"
             /\ photoshop_path' = path
             /\ outputDirExists' = TRUE
             /\ UNCHANGED log
  /\ UNCHANGED <<platform, installed, args, inputIsDir, dirContent, outFiles,
                 image_files, bracketed_sets, i, success_count, total_count,
                 last, submitted, spawned>>

\* the batch branch of main up to the loop of batch_edit_photos
MainBatch ==
  /\ pc = "dispatch"
  /\ args.command = "batch"
  /\ image_files' = get_image_files(dirContent, args.recursive, platform)
  /\ IF NoImageFiles(image_files')
     THEN /\ pc' = "done"
          /\ log' = log \cup {"no_image_files"}
          /\ UNCHANGED <<i, success_count, total_count>>
     ELSE /\ pc' = "loop"
          /\ log' = log \cup {"found"}
          /\ i' = 0
          /\ success_count' = 0
          /\ total_count' = Len(image_files')
  /\ UNCHANGED <<platform, installed, args, inputIsDir, dirContent,
                 outputDirExists, outFiles, photoshop_path,
                 bracketed_sets, last, submitted, spawned>>

\* the hdr branch of main up to the loop of merge_hdr_photos
MainHdr ==
  /\ pc = "dispatch"
  /\ args.command = "hdr"
  /\ image_files' = get_image_files(dirContent, FALSE, platform)
  /\ IF NoImageFiles(image_files')
     THEN /\ pc' = "done"
          /\ log' = log \cup {"no_image_files"}
          /\ UNCHANGED <<bracketed_sets, i, success_count, total_count>>
     ELSE /\ bracketed_sets' =
               identify_bracketed_sets(image_files', args.bracket_count)
          /\ IF bracketed_sets' = <<>>
             THEN /\ pc' = "done"
                  /\ log' = log \cup {"found", "no_bracketed_sets"}
                  /\ UNCHANGED <<i, success_count, total_count>>
             ELSE /\ pc' = "loop"
                  /\ log' = log \cup {"found", "identified"}
                  /\ i' = 0
                  /\ success_count' = 0
                  /\ total_count' = Len(bracketed_sets')
  /\ UNCHANGED <<platform, installed, args, inputIsDir, dirContent,
                 outputDirExists, outFiles, photoshop_path, last,
                 submitted, spawned>>

\* ------------------------------------------------------------------------
\* The loops of batch_edit_photos and merge_hdr_photos
\* ------------------------------------------------------------------------
\* "for i in range(0, total_count, batch_size)" / "for i, bracketed_set in
\* enumerate(bracketed_sets)": is there another iteration
MoreUnits(command, idx, total) == idx < total

\* (fault: the loop variable advances too far)
LoopStepMut(command) == IF command = "batch" THEN 2 * batch_size ELSE 2

\* the step of the loop variable
LoopStep(command) == IF command = "batch" THEN batch_size ELSE 1

\* the unit of the current iteration
CurrentUnit ==
  IF args.command = "batch" THEN BatchSlice(image_files, i)
  ELSE bracketed_sets[i + 1]

\* what the caller adds to success_count after the call returned ok
UnitCount(ok, unit, out) ==
  IF args.command = "batch" THEN BatchCount(ok, unit, out)
  ELSE HdrCount(ok, unit, out)

\* the output files the editor may leave behind for a unit
Produced(unit) ==
  IF args.command = "batch"
  THEN {{}, {BatchOutputFile(unit[1])},
        {BatchOutputFile(unit[k]) : k \in 1..Len(unit)}}
  ELSE {{}, {HdrOutputFile(unit)}}

\* subprocess.Popen finds cmd[0]: osascript on darwin, photoshop_path
\* elsewhere
CanSpawn(plat, path, exists) == plat = "darwin" \/ path \in exists

\* how run_photoshop_script may end before a process runs: the script file
\* is missing (return False), Popen raises (caught, return False), or the
\* process is started.  The temporary parameter and script files are taken
\* to be written without error.
StartOutcomes ==
  {"script_missing", "popen_raised"} \cup
  (IF CanSpawn(platform, photoshop_path, installed) THEN {"spawned"} ELSE {})

\* how process.communicate() may end
ExitOutcomes ==
  [kind : {"exited"}, returncode : ExitCodes, stderr : BOOLEAN]
  \cup {[kind |-> "communicate_raised", returncode |-> 0, stderr |-> FALSE]}

\* one iteration up to subprocess.Popen; when run_photoshop_script returns
\* before a process runs the iteration is completed here
InvokeUnit ==
  /\ pc = "loop"
  /\ MoreUnits(args.command, i, total_count)
  /\ submitted' = Append(submitted, CurrentUnit)
  /\ \E start \in StartOutcomes :
       IF start = "spawned"
       THEN /\ pc' = "waiting"
            /\ spawned' = spawned + 1
            /\ UNCHANGED <<last, success_count, i>>
       ELSE /\ pc' = "loop"
            /\ last' = [kind |-> start, returncode |-> 0, stderr |-> FALSE,
                        result |-> FALSE]
            /\ success_count' =
                 success_count + UnitCount(FALSE, CurrentUnit, outFiles)
            /\ i' = i + LoopStep(args.command)
            /\ UNCHANGED spawned
  /\ UNCHANGED <<platform, installed, args, inputIsDir, dirContent,
                 outputDirExists, outFiles, photoshop_path,
                 image_files, bracketed_sets, total_count, log>>

\* process.communicate() returns or raises; the result is computed, the
\* output files are looked up and the loop variable advances
ProcessReturns ==
  /\ pc = "waiting"
  /\ \E out \in ExitOutcomes, produced \in Produced(CurrentUnit) :
       LET ok == IF out.kind = "exited"
                 THEN ScriptResult(out.returncode, out.stderr)
                 ELSE FALSE
       IN /\ outFiles' = outFiles \cup produced
          /\ last' = [kind |-> out.kind, returncode |-> out.returncode,
                      stderr |-> out.stderr, result |-> ok]
          /\ success_count' =
               success_count + UnitCount(ok, CurrentUnit, outFiles')
  /\ i' = i + LoopStep(args.command)
  /\ pc' = "loop"
  /\ UNCHANGED <<platform, installed, args, inputIsDir, dirContent,
                 outputDirExists, photoshop_path, image_files,
                 bracketed_sets, total_count, submitted, spawned, log>>

\* the loop is over: the counts are returned and main logs the summary
Summary ==
  /\ pc = "loop"
  /\ ~MoreUnits(args.command, i, total_count)
  /\ pc' = "done"
  /\ log' = log \cup {"summary"}
  /\ UNCHANGED <<platform, installed, args, inputIsDir, dirContent,
                 outputDirExists, outFiles, photoshop_path,
                 image_files, bracketed_sets, i, success_count, total_count,
                 last, submitted, spawned>>

Next ==
  \/ Preflight
  \/ MainBatch
  \/ MainHdr
  \/ InvokeUnit
  \/ ProcessReturns
  \/ Summary

Spec == Init /\ [][Next]_vars

\* the program has one thread and every step it takes returns: the run
\* goes on as long as a step is possible
FairSpec == Spec /\ WF_vars(Next)

\* ------------------------------------------------------------------------
\* identify_bracketed_sets on its own, for any list a caller may pass
\* ------------------------------------------------------------------------
\* lists over two files in any order, repeats included, and the captures of
\* a shoot in reverse order
InputLists ==
  UNION {[1..n -> {BulkName(1), BulkName(2)}] : n \in 0..MaxSeqLen}
  \cup {[k \in 1..n |-> BulkName(n + 1 - k)] : n \in 0..MaxSeqLen}

BracketInit ==
  /\ platform = "linux"
  /\ installed = {}
  /\ args \in [command : {"hdr"}, photoshop : {NoPath}, recursive : {FALSE},
               bracket_count : BracketCounts]
  /\ inputIsDir = TRUE
  /\ dirContent = {}
  /\ outputDirExists = TRUE
  /\ outFiles = {}
  /\ pc = "bracket_in"
  /\ photoshop_path = NoPath
  /\ image_files \in InputLists
  /\ bracketed_sets = <<>>
  /\ i = 0
  /\ success_count = 0
  /\ total_count = 0
  /\ last = NoCall
  /\ submitted = <<>>
  /\ spawned = 0
  /\ log = {}

\* one call: the list is sorted in place and the sets are returned
Identify ==
  /\ pc = "bracket_in"
  /\ pc' = "bracket_out"
  /\ image_files' = Sorted(image_files)
  /\ bracketed_sets' = identify_bracketed_sets(image_files, args.bracket_count)
  /\ UNCHANGED <<platform, installed, args, inputIsDir, dirContent,
                 outputDirExists, outFiles, photoshop_path, i, success_count,
                 total_count, last, submitted, spawned, log>>

BracketSpec == BracketInit /\ [][Identify]_vars

\* ------------------------------------------------------------------------
\* Properties
\* ------------------------------------------------------------------------
\* C1: for bracket_count B >= 2 and a list of N files the result consists of
\* consecutive slices of the sorted list: floor(N/B) sets of B files, then
\* the remaining N mod B files as a last set iff there are at least 2 of
\* them; one remaining file is dropped.
C1_ConsecutiveSlices ==
  [][(pc = "bracket_in" /\ pc' = "bracket_out" /\ args.bracket_count >= 2) =>
       LET B == args.bracket_count
           S == image_files'
           N == Len(S)
           q == N \div B
           r == N % B
           G == bracketed_sets'
       IN /\ N = Len(image_files)
          /\ \A k \in 1..(N - 1) : ~StrLess(S[k + 1], S[k])
          /\ \A k \in 1..N :
               Cardinality({m \in 1..N : S[m] = S[k]}) =
               Cardinality({m \in 1..N : image_files[m] = S[k]})
          /\ Len(G) = q + (IF r >= 2 THEN 1 ELSE 0)
          /\ \A g \in 1..q : G[g] = SubSeq(S, (g - 1) * B + 1, g * B)
          /\ r >= 2 => G[q + 1] = SubSeq(S, q * B + 1, N)
    ]_vars

\* 7 files in sets of 3: two sets, the seventh file dropped
C1_Witness ==
  /\ pc = "bracket_out"
  /\ args.bracket_count = 3
  /\ Len(image_files) = 7
  /\ Len(bracketed_sets) = 2

\* C2: the batch command gives ceil(N/10) batches to the editor; batch k
\* holds the files at positions (k-1)*10+1 .. min(k*10, N), so no batch is
\* empty, all but the last have 10 files, and the batches in call order make
\* up the input list.
C2_BatchPartition ==
  (args.command = "batch" /\ pc \in {"loop", "waiting", "done"}
     /\ "found" \in log) =>
    LET N == Len(image_files)
        S == batch_size
        count == (N + S - 1) \div S
    IN /\ Len(submitted) <= count
       /\ \A k \in 1..Len(submitted) :
            /\ Len(submitted[k]) = (IF k < count THEN S ELSE N - (count - 1) * S)
            /\ Len(submitted[k]) >= 1
            /\ \A m \in 1..Len(submitted[k]) :
                 submitted[k][m] = image_files[(k - 1) * S + m]
       /\ "summary" \in log => Len(submitted) = count

\* three batches were given to the editor, the last one shorter
C2_Witness ==
  /\ args.command = "batch"
  /\ "summary" \in log
  /\ Len(submitted) = 3
  /\ Len(submitted[3]) < batch_size

\* C3: success_count grows only when a unit ends, and then by the number of
\* its items for which the call returned ok and the expected output file
\* exists; 0 <= success_count <= total_count, and total_count is the number
\* of input files (batch) or of bracket sets (hdr).
C3_Counting ==
  /\ [](/\ 0 <= success_count
        /\ success_count <= total_count
        /\ (pc \in {"loop", "waiting"} \/ "summary" \in log) =>
             total_count = (IF args.command = "batch" THEN Len(image_files)
                            ELSE Len(bracketed_sets)))
  /\ [][IF pc \in {"loop", "waiting"} /\ i' # i
        THEN LET unit == submitted'[Len(submitted')]
             IN success_count' - success_count =
                  (IF args.command = "batch"
                   THEN Cardinality({k \in 1..Len(unit) :
                          last'.result /\ BatchOutputFile(unit[k]) \in outFiles'})
                   ELSE IF last'.result /\ HdrOutputFile(unit) \in outFiles'
                        THEN 1 ELSE 0)
        ELSE success_count' = success_count
      ]_vars

\* the process of the only set so far exited with 0, its output file is
\* missing and nothing was counted
C3_Witness ==
  /\ args.command = "hdr"
  /\ pc = "loop"
  /\ Len(submitted) = 1
  /\ last.kind = "exited" /\ last.returncode = 0 /\ last.result
  /\ HdrOutputFile(submitted[1]) \notin outFiles
  /\ success_count = 0

C5_AbortsBeforeProcessing ==
  /\ [](LET known == IF platform \in DOMAIN PHOTOSHOP_PATHS
                     THEN {PHOTOSHOP_PATHS[platform][k] :
                             k \in 1..Len(PHOTOSHOP_PATHS[platform])}
                     ELSE {}
            unreachable == IF args.photoshop # NoPath
                           THEN args.photoshop \notin installed
                           ELSE known \cap installed = {}
        IN (unreachable \/ ~inputIsDir) =>
             (submitted = <<>> /\ spawned = 0 /\ "summary" \notin log))
  /\ [][LET known == IF platform \in DOMAIN PHOTOSHOP_PATHS
                     THEN {PHOTOSHOP_PATHS[platform][k] :
                             k \in 1..Len(PHOTOSHOP_PATHS[platform])}
                     ELSE {}
            unreachable == IF args.photoshop # NoPath
                           THEN args.photoshop \notin installed
                           ELSE known \cap installed = {}
        IN (unreachable \/ ~inputIsDir) =>
             outputDirExists' = outputDirExists]_vars

\* C6: when discovery finds no file, "no image files" is logged and no unit
\* is ever given to the editor.
C6_NoFilesNoInvocation ==
  (/\ pc \in {"loop", "waiting", "done"}
   /\ args.command \in {"batch", "hdr"}
   /\ photoshop_path # NoPath
   /\ inputIsDir
   /\ image_files = <<>>) =>
    (/\ "no_image_files" \in log
     /\ submitted = <<>>
     /\ spawned = 0)

\* the run is over for a directory that holds files, none of them found
C6_Witness ==
  /\ pc = "done"
  /\ "no_image_files" \in log
  /\ dirContent # {}
  /\ image_files = <<>>
  /\ submitted = <<>>

C8_CaseInsensitiveOnce ==
  (/\ pc \in {"loop", "waiting", "done"}
   /\ args.command \in {"batch", "hdr"}
   /\ ~args.recursive
   /\ photoshop_path # NoPath
   /\ inputIsDir) =>
    LET eligible ==
          {p \in dirContent :
             /\ \A k \in 1..Len(p) : p[k] # 47
             /\ \E e \in 1..Len(SUPPORTED_IMAGE_FORMATS) :
                  EndsWith(Lower(p), SUPPORTED_IMAGE_FORMATS[e])}
    IN /\ \A k \in 1..(Len(image_files) - 1) :
            ~StrLess(image_files[k + 1], image_files[k])
       /\ \A k \in 1..Len(image_files) : image_files[k] \in eligible
       /\ \A p \in eligible :
            Cardinality({k \in 1..Len(image_files) : image_files[k] = p}) = 1

\* C9: every bracket set of the hdr command has at least 2 and at most
\* bracket_count files.
C9_SetSizeBounds ==
  \A k \in 1..Len(bracketed_sets) :
     /\ Len(bracketed_sets[k]) >= 2
     /\ Len(bracketed_sets[k]) <= args.bracket_count

\* C10: for a list of fewer than 2 files, and for bracket_count 1, the
\* result of identify_bracketed_sets is empty and the hdr command gives no
\* unit to the editor.
C10_NoSetsNoInvocation ==
  (/\ args.command = "hdr"
   /\ pc \in {"loop", "waiting", "done"}
   /\ photoshop_path # NoPath
   /\ inputIsDir
   /\ (Len(image_files) < 2 \/ args.bracket_count = 1)) =>
    (/\ identify_bracketed_sets(image_files, args.bracket_count) = <<>>
     /\ bracketed_sets = <<>>
     /\ submitted = <<>>
     /\ spawned = 0)

\* two or more files with bracket_count 1: no set, the run ends
C10_Witness ==
  /\ args.command = "hdr"
  /\ pc = "done"
  /\ args.bracket_count = 1
  /\ Len(image_files) >= 2
  /\ "no_bracketed_sets" \in log
  /\ submitted = <<>>

====
